---- MODULE Spec2Model ----
(***************************************************************************)
(* Model of run_task.py: a Flask endpoint (run_function) that starts one   *)
(* thread per inbound run-task event (process_request), and one daemon     *)
(* thread (process_queue) that drains run_ids_queue and applies the runs.  *)
(*                                                                         *)
(* The orchestration platform is the environment: every HTTP call returns  *)
(* a response whose content is chosen nondeterministically at the call.    *)
(* An event is a JSON object that carries access_token (line 105 reads it   *)
(* unconditionally); a 200 response carries the JSON fields the code reads. *)
(* Every "ghost" field named below records what a thread has done and is   *)
(* never read by the modelled code.                                        *)
(***************************************************************************)
EXTENDS Integers, Sequences, FiniteSets, TLC

\* Number of inbound events the endpoint receives in a behaviour.
MaxEvents == 2

\* Python's None: a missing JSON key read with dict.get, a missing header.
None == "None"

\* Run identifiers the platform may put in an event.
RunIds == {"run-1", "run-2"}

secret_key == "HMAC_SECRET"

\* hmac.new(key, raw, hashlib.sha512).hexdigest(): a digest is determined by
\* the key and the raw bytes, and differs when either differs.
hmac_hexdigest(key, raw) == <<"sha512", key, raw>>

\* request.data: the bytes the platform signed, or bytes altered in transit.
RawBodies == {"sent", "altered"}

\* X-Tfc-Task-Signature: the platform signs the bytes it sent.
Signatures == {hmac_hexdigest(secret_key, "sent")}

\* request.get_json(): the fields of the event that the code reads. Of a probe
\* run_function reads the level only; one probe, complete in every other field,
\* stands for all of them.
Bodies ==
    [task_result_enforcement_level : {"mandatory"},
     task_result_callback_url : {"https://callback", None},
     stage : {"post_plan", "pre_plan"},
     run_id : RunIds \cup {None}]
      \cup {[task_result_enforcement_level |-> "test",
              task_result_callback_url |-> "https://callback",
              stage |-> "post_plan", run_id |-> "run-1"]}

\* Responses of the platform API.
RunResponses ==
    [status_code : {200},
     source : {"tfe-run-trigger", "tfe-ui"},
     status : {"planned", "planned_and_finished"},
     is_confirmable : BOOLEAN]
      \cup {[status_code |-> 404, source |-> None, status |-> None, is_confirmable |-> None]}

WorkspaceResponses ==
    [status_code : {200}, auto_apply : BOOLEAN]
      \cup {[status_code |-> 404, auto_apply |-> None]}

ApplyStatusCodes == {202, 409, 500}

VARIABLES
    run_ids_queue,  \* queue.SimpleQueue of run ids
    handlers,       \* ghost: the calls of run_function, in arrival order
    threads,        \* threads started on process_request, in start order
    pq,             \* the process_queue thread: its locals and position
    last_pop,       \* ghost: the id process_queue popped most recently
    iter,           \* ghost: the current iteration of process_queue
    accepted        \* ghost: the run ids for which applyRun has answered 202

vars == <<run_ids_queue, handlers, threads, pq, last_pop, iter, accepted>>

----------------------------------------------------------------------------
\* process_request: the checks, in the order of the code

HmacMismatch(t) == t.request_hmac # hmac_hexdigest(secret_key, t.body_raw)

\* The presence test inverted: `in` for `not in`.
NoCallbackUrl_Inverted(body) == body.task_result_callback_url # None

NoCallbackUrl(body) == body.task_result_callback_url = None

\* The stage test dropped.
NotPostPlan_Never(body) == FALSE

NotPostPlan(body) == body.stage # "post_plan"

NoRunId(body) == body.run_id = None

\* Only a server error taken as a failure.
GetFailed_Only5xx(response) == response.status_code >= 500

GetFailed(response) == response.status_code # 200

NotRunTrigger(run_response) == run_response.source # "tfe-run-trigger"

\* The workspace setting ignored.
AutoApplyOff_Ignored(workspace_response) == FALSE

AutoApplyOff(workspace_response) == workspace_response.auto_apply = FALSE

\* tfc_body_attributes["status"], ["message"] are set; the PATCH comes next.
SetVerdict(t, status, message) ==
    [t EXCEPT !.status = status, !.message = message, !.pc = "patch"]

\* A thread as Thread(target=process_request, args=(...)).start() creates it.
\* status starts as "failed" (the default body). Ghosts: handler (the call of
\* run_function that started it), the responses seen (status_code 0: no call
\* made), the numbers of GETs and PATCHes, the ids put, the status delivered.
NewThread(h, body, body_raw, request_hmac) ==
    [handler |-> h, body |-> body, body_raw |-> body_raw, request_hmac |-> request_hmac,
     pc |-> "start", status |-> "failed", message |-> None,
     run_response |-> [status_code |-> 0, source |-> None],
     workspace_response |-> [status_code |-> 0, auto_apply |-> None],
     run_gets |-> 0, workspace_gets |-> 0, puts |-> <<>>,
     patch_calls |-> 0, reported |-> None]

\* Lines 120-156: HMAC, callback target, stage, run_id.
Checks(t) ==
    IF HmacMismatch(t) THEN SetVerdict(t, "failed", "Invalid HMAC.")
    ELSE IF NoCallbackUrl(t.body) THEN [t EXCEPT !.pc = "done"]
    ELSE IF NotPostPlan(t.body) THEN SetVerdict(t, "passed", "not post_plan")
    ELSE IF NoRunId(t.body) THEN SetVerdict(t, "failed", "no run_id")
    ELSE [t EXCEPT !.pc = "get_run"]

\* What process_request reads of the run's JSON: the status code and the source.
RunSeen(response) == [status_code |-> response.status_code, source |-> response.source]

\* Lines 160-181: GET the run, then look at its source.
AfterGetRun(t, response) ==
    LET u == [t EXCEPT !.run_response = response, !.run_gets = @ + 1] IN
    IF GetFailed(response) THEN SetVerdict(u, "failed", "Failed to get run details")
    ELSE IF NotRunTrigger(response) THEN SetVerdict(u, "passed", "not run triggered")
    ELSE [u EXCEPT !.pc = "get_workspace"]

\* Lines 183-205: GET the workspace, then look at auto-apply.
\* The verdict "queued" prepared without going through the put.
AfterGetWorkspace_SkipPut(t, response) ==
    LET u == [t EXCEPT !.workspace_response = response, !.workspace_gets = @ + 1] IN
    IF GetFailed(response) THEN SetVerdict(u, "failed", "Failed to get workspace details")
    ELSE IF AutoApplyOff(response) THEN SetVerdict(u, "passed", "not auto-apply")
    ELSE SetVerdict(u, "passed", "queued")

AfterGetWorkspace(t, response) ==
    LET u == [t EXCEPT !.workspace_response = response, !.workspace_gets = @ + 1] IN
    IF GetFailed(response) THEN SetVerdict(u, "failed", "Failed to get workspace details")
    ELSE IF AutoApplyOff(response) THEN SetVerdict(u, "passed", "not auto-apply")
    ELSE [u EXCEPT !.pc = "put"]

\* Lines 211-213: after run_ids_queue.put(run_id).
AfterPut(t) ==
    SetVerdict([t EXCEPT !.puts = Append(@, t.body.run_id)], "passed", "queued")

\* requests.patch(body.get("task_result_callback_url"), ...): with no URL the
\* library raises (MissingSchema), nothing is sent and the thread dies.
AfterPatch(t) ==
    IF t.body.task_result_callback_url = None
    THEN [t EXCEPT !.patch_calls = @ + 1, !.pc = "error"]
    ELSE [t EXCEPT !.patch_calls = @ + 1, !.reported = t.status, !.pc = "done"]

PR_Checks(i) ==
    /\ threads[i].pc = "start"
    /\ threads' = [threads EXCEPT ![i] = Checks(threads[i])]
    /\ UNCHANGED <<run_ids_queue, handlers, pq, last_pop, iter, accepted>>

\* The responses are drawn as process_request sees them (RunSeen).
PR_GetRun(i) ==
    /\ threads[i].pc = "get_run"
    /\ \E response \in {RunSeen(r) : r \in RunResponses} :
          threads' = [threads EXCEPT ![i] = AfterGetRun(threads[i], response)]
    /\ UNCHANGED <<run_ids_queue, handlers, pq, last_pop, iter, accepted>>

PR_GetWorkspace(i) ==
    /\ threads[i].pc = "get_workspace"
    /\ \E response \in WorkspaceResponses :
          threads' = [threads EXCEPT ![i] = AfterGetWorkspace(threads[i], response)]
    /\ UNCHANGED <<run_ids_queue, handlers, pq, last_pop, iter, accepted>>

\* The put done twice.
PR_Put_Twice(i) ==
    /\ threads[i].pc = "put"
    /\ run_ids_queue' = Append(Append(run_ids_queue, threads[i].body.run_id),
                               threads[i].body.run_id)
    /\ threads' = [threads EXCEPT ![i] = AfterPut(threads[i])]
    /\ UNCHANGED <<handlers, pq, last_pop, iter, accepted>>

PR_Put(i) ==
    /\ threads[i].pc = "put"
    /\ run_ids_queue' = Append(run_ids_queue, threads[i].body.run_id)
    /\ threads' = [threads EXCEPT ![i] = AfterPut(threads[i])]
    /\ UNCHANGED <<handlers, pq, last_pop, iter, accepted>>

PR_Patch(i) ==
    /\ threads[i].pc = "patch"
    /\ threads' = [threads EXCEPT ![i] = AfterPatch(threads[i])]
    /\ UNCHANGED <<run_ids_queue, handlers, pq, last_pop, iter, accepted>>

----------------------------------------------------------------------------
\* run_function

\* The test for the probe inverted.
IsProbe_Inverted(body) == body.task_result_enforcement_level # "test"

IsProbe(body) == body.task_result_enforcement_level = "test"

\* Lines 222-239: parse, start a thread unless this is the test call, answer 200.
\* The handler joins the thread before it answers: no answer is recorded.
run_function_Joins(body, body_raw, request_hmac) ==
    LET h == Len(handlers) + 1 IN
    /\ Len(handlers) < MaxEvents
    /\ handlers' = Append(handlers,
                          [level |-> body.task_result_enforcement_level,
                           response |-> IF IsProbe(body) THEN 200 ELSE 0])
    /\ threads' = IF IsProbe(body)
                  THEN threads
                  ELSE Append(threads, NewThread(h, body, body_raw, request_hmac))
    /\ UNCHANGED <<run_ids_queue, pq, last_pop, iter, accepted>>

run_function(body, body_raw, request_hmac) ==
    LET h == Len(handlers) + 1 IN
    /\ Len(handlers) < MaxEvents
    /\ handlers' = Append(handlers,
                          [level |-> body.task_result_enforcement_level, response |-> 200])
    /\ threads' = IF IsProbe(body)
                  THEN threads
                  ELSE Append(threads, NewThread(h, body, body_raw, request_hmac))
    /\ UNCHANGED <<run_ids_queue, pq, last_pop, iter, accepted>>

----------------------------------------------------------------------------
\* process_queue

\* The comparison inverted.
SameAsPrevious_Inverted(s, run_id) == s.prev_run_id # run_id

SameAsPrevious(s, run_id) == s.prev_run_id = run_id

\* response.status == "planned_and_finished" (line 81).
PlannedAndFinished(response) == response.status = "planned_and_finished"

\* response ... ["is-confirmable"] == False (line 86).
\* The confirmable check dropped.
NotConfirmable_Never(response) == FALSE

NotConfirmable(response) == response.is_confirmable = FALSE

\* apply_response.status_code == 202 (line 94), == 409 (line 96).
ApplyAccepted(status_code) == status_code = 202

\* 409 handled like any unexpected status.
ApplyConflict_Never(status_code) == FALSE

ApplyConflict(status_code) == status_code = 409

\* run_ids_queue.put(run_id) of process_queue (lines 88 and 98).
\* The put left out.
Requeue_Dropped(queue, run_id) == queue

\* The id put twice.
Requeue_Twice(queue, run_id) == Append(Append(queue, run_id), run_id)

Requeue(queue, run_id) == Append(queue, run_id)

\* What process_queue reads of the run's JSON.
QueueSeen(response) ==
    [status_code |-> response.status_code, status |-> response.status,
     is_confirmable |-> response.is_confirmable]

NoResponse == [status_code |-> 0, status |-> None, is_confirmable |-> None]

\* Ghost of one iteration. During it: repeat (the id popped is the id popped
\* before), slept (the delay was taken), fetched (the response to the GET of
\* the run), applies (the number of apply calls), applied (the status code of
\* the apply, 0: no call), requeued (the number of puts). repeat and slept are cleared when the iteration ends; the
\* rest stays until the next get.
Idle == [repeat |-> FALSE, slept |-> FALSE, fetched |-> NoResponse,
         applies |-> 0, applied |-> 0, requeued |-> 0]

\* run_ids_queue.get() (line 56) on a queue.Queue (line 20), which is first
\* in, first out: the item returned and the queue left.
\* Last in, first out.
QueueGet_Lifo(queue) ==
    [item |-> queue[Len(queue)], rest |-> SubSeq(queue, 1, Len(queue) - 1)]

QueueGet(queue) == [item |-> Head(queue), rest |-> Tail(queue)]

\* Lines 56-67: blocking get, then sleep when the id is the one just tried.
PQ_Get ==
    /\ pq.pc = "get"
    /\ run_ids_queue # <<>>
    /\ LET run_id == QueueGet(run_ids_queue).item IN
          /\ run_ids_queue' = QueueGet(run_ids_queue).rest
          /\ last_pop' = run_id
          /\ iter' = [Idle EXCEPT !.repeat = (last_pop = run_id)]
          /\ pq' = IF SameAsPrevious(pq, run_id)
                   THEN [pq EXCEPT !.run_id = run_id, !.pc = "sleep"]
                   ELSE [pq EXCEPT !.run_id = run_id, !.prev_run_id = run_id,
                                   !.pc = "get_run"]
    /\ UNCHANGED <<handlers, threads, accepted>>

\* Line 64: time.sleep(5); line 67.
\* A delay that does not end.
PQ_Sleep_Forever ==
    /\ pq.pc = "sleep"
    /\ iter' = [iter EXCEPT !.slept = TRUE]
    /\ UNCHANGED <<run_ids_queue, handlers, threads, pq, last_pop, accepted>>

PQ_Sleep ==
    /\ pq.pc = "sleep"
    /\ pq' = [pq EXCEPT !.prev_run_id = pq.run_id, !.pc = "get_run"]
    /\ iter' = [iter EXCEPT !.slept = TRUE]
    /\ UNCHANGED <<run_ids_queue, handlers, threads, last_pop, accepted>>

\* Lines 70-89: GET the run; drop, put back, or go on to apply. The responses
\* are drawn as process_queue sees them (QueueSeen).
PQ_GetRun ==
    /\ pq.pc = "get_run"
    /\ \E response \in {QueueSeen(r) : r \in RunResponses} :
          IF GetFailed(response) \/ PlannedAndFinished(response)
          THEN /\ pq' = [pq EXCEPT !.pc = "get"]
               /\ iter' = [Idle EXCEPT !.fetched = response]
               /\ UNCHANGED run_ids_queue
          ELSE IF NotConfirmable(response)
          THEN /\ run_ids_queue' = Requeue(run_ids_queue, pq.run_id)
               /\ pq' = [pq EXCEPT !.pc = "get"]
               /\ iter' = [Idle EXCEPT !.fetched = response,
                                       !.requeued = Len(run_ids_queue') - Len(run_ids_queue)]
          ELSE /\ pq' = [pq EXCEPT !.pc = "apply"]
               /\ iter' = [iter EXCEPT !.fetched = response]
               /\ UNCHANGED run_ids_queue
    /\ UNCHANGED <<handlers, threads, last_pop, accepted>>

\* Lines 92-100: POST the apply; 202 drops, 409 puts back, anything else drops.
PQ_Apply ==
    /\ pq.pc = "apply"
    /\ \E status_code \in ApplyStatusCodes :
          /\ run_ids_queue' = IF ApplyAccepted(status_code) THEN run_ids_queue
                              ELSE IF ApplyConflict(status_code)
                              THEN Requeue(run_ids_queue, pq.run_id)
                              ELSE run_ids_queue
          /\ accepted' = IF status_code = 202
                         THEN accepted \cup {pq.run_id}
                         ELSE accepted
          /\ iter' = [Idle EXCEPT !.fetched = iter.fetched, !.applied = status_code,
                                  !.applies = iter.applies + 1,
                                  !.requeued = Len(run_ids_queue') - Len(run_ids_queue)]
    /\ pq' = [pq EXCEPT !.pc = "get"]
    /\ UNCHANGED <<handlers, threads, last_pop>>

----------------------------------------------------------------------------

Init ==
    /\ run_ids_queue = <<>>
    /\ handlers = <<>>
    /\ threads = <<>>
    /\ pq = [pc |-> "get", run_id |-> None, prev_run_id |-> None]
    /\ last_pop = None
    /\ iter = Idle
    /\ accepted = {}

Next ==
    \/ \E body \in Bodies, body_raw \in RawBodies, request_hmac \in Signatures :
          run_function(body, body_raw, request_hmac)
    \/ \E i \in DOMAIN threads : PR_Checks(i)
    \/ \E i \in DOMAIN threads : PR_GetRun(i)
    \/ \E i \in DOMAIN threads : PR_GetWorkspace(i)
    \/ \E i \in DOMAIN threads : PR_Put(i)
    \/ \E i \in DOMAIN threads : PR_Patch(i)
    \/ PQ_Get
    \/ PQ_Sleep
    \/ PQ_GetRun
    \/ PQ_Apply

Spec == Init /\ [][Next]_vars

\* The threads of the process: one per event (line 235) and the one that runs
\* process_queue (lines 248-253, daemon, started before the server at line 258).
ThreadStep(i) ==
    /\ i \in DOMAIN threads
    /\ PR_Checks(i) \/ PR_GetRun(i) \/ PR_GetWorkspace(i) \/ PR_Put(i) \/ PR_Patch(i)

PQ_Step == PQ_Get \/ PQ_Sleep \/ PQ_GetRun \/ PQ_Apply

\* Every thread that can take a step eventually takes one: the interpreter
\* switches between runnable threads, the delay of line 64 ends, and every HTTP
\* call returns a response. The arrival of events is under no obligation.
Fairness ==
    /\ WF_vars(PQ_Step)
    /\ \A i \in 1..MaxEvents : WF_vars(ThreadStep(i))

SpecFair == Spec /\ Fairness

----------------------------------------------------------------------------
\* Properties

Finished(t) == t.pc \in {"done", "error"}

SignatureMatches(t) == t.request_hmac = hmac_hexdigest(secret_key, t.body_raw)

HasCallbackUrl(t) == t.body.task_result_callback_url # None

\* Every eligibility condition, on the event and on the responses the thread got.
EligibleEvent(t) ==
    /\ SignatureMatches(t)
    /\ HasCallbackUrl(t)
    /\ t.body.stage = "post_plan"
    /\ t.body.run_id # None
    /\ t.run_response.status_code = 200
    /\ t.run_response.source = "tfe-run-trigger"
    /\ t.workspace_response.status_code = 200
    /\ t.workspace_response.auto_apply = TRUE

\* C1: a thread puts the event's run id on the queue if and only if every
\* eligibility condition holds; it then puts it exactly once and reports
\* "passed"; otherwise it puts nothing.
C1_PushIffEligible ==
    \A i \in DOMAIN threads :
        LET t == threads[i] IN
        /\ Len(t.puts) <= 1
        /\ t.puts # <<>> => EligibleEvent(t) /\ t.puts = <<t.body.run_id>>
        /\ Finished(t) /\ EligibleEvent(t) =>
              /\ t.puts = <<t.body.run_id>>
              /\ t.reported = "passed"
        /\ Finished(t) /\ ~EligibleEvent(t) => t.puts = <<>>

C1_Witness ==
    \E i \in DOMAIN threads :
        /\ threads[i].pc = "done"
        /\ EligibleEvent(threads[i])
        /\ threads[i].puts = <<"run-1">>
        /\ threads[i].reported = "passed"

\* C2 as stated: for every event whose stage is not post_plan, the verdict the
\* thread reports is "passed" and no run id is put on the queue.
C2_Original ==
    \A i \in DOMAIN threads :
        LET t == threads[i] IN
        t.body.stage # "post_plan" =>
            /\ t.puts = <<>>
            /\ t.reported # None => t.reported = "passed"

\* C2 amended: for every event whose stage is not post_plan no run id is put on
\* the queue, no GET is made, and, when the signature matches and the event has
\* a callback target, the one verdict reported is "passed".
C2_NotPostPlan ==
    \A i \in DOMAIN threads :
        LET t == threads[i] IN
        t.body.stage # "post_plan" =>
            /\ t.puts = <<>>
            /\ t.run_gets = 0 /\ t.workspace_gets = 0
            /\ Finished(t) /\ SignatureMatches(t) /\ HasCallbackUrl(t) =>
                  t.reported = "passed" /\ t.patch_calls = 1

C2_Witness ==
    \E i \in DOMAIN threads :
        /\ threads[i].pc = "done"
        /\ threads[i].body.stage = "pre_plan"
        /\ threads[i].body.run_id = "run-1"
        /\ SignatureMatches(threads[i])
        /\ threads[i].reported = "passed"

\* C3: for every event whose signature does not match the digest of the raw
\* body, the verdict reported via the callback is "failed" and nothing is put
\* on the queue, whatever the other fields of the payload are.
C3_TamperedFails ==
    \A i \in DOMAIN threads :
        LET t == threads[i] IN
        Finished(t) /\ ~SignatureMatches(t) =>
            /\ t.reported = "failed"
            /\ t.puts = <<>>

\* C4: a thread whose event has no callback target attempts no callback, puts
\* nothing on the queue and does not end in an error.
C4_NoCallbackNoOp ==
    \A i \in DOMAIN threads :
        LET t == threads[i] IN
        ~HasCallbackUrl(t) =>
            /\ t.patch_calls = 0
            /\ t.puts = <<>>
            /\ t.pc # "error"

\* C5 as stated: every event is acknowledged and every thread that has ended
\* has issued the callback PATCH exactly once.
C5_Original ==
    /\ \A h \in DOMAIN handlers : handlers[h].response = 200
    /\ \A i \in DOMAIN threads :
          LET t == threads[i] IN
          /\ t.patch_calls <= 1
          /\ Finished(t) => t.patch_calls = 1 /\ t.reported # None

\* C5 amended: every event is acknowledged; a thread calls PATCH at most once;
\* a thread whose event has a callback target has, when it ends, delivered
\* exactly one verdict; a thread whose event has none delivers no verdict.
C5_OneVerdict ==
    /\ \A h \in DOMAIN handlers : handlers[h].response = 200
    /\ \A i \in DOMAIN threads :
          LET t == threads[i] IN
          /\ t.patch_calls <= 1
          /\ t.reported # None => t.patch_calls = 1
          /\ Finished(t) /\ HasCallbackUrl(t) =>
                t.patch_calls = 1 /\ t.reported \in {"passed", "failed"}
          /\ ~HasCallbackUrl(t) => t.reported = None

C5_Witness ==
    \E i, j \in DOMAIN threads :
        /\ threads[i].pc = "done" /\ threads[i].reported = "failed"
        /\ threads[i].patch_calls = 1
        /\ threads[j].pc = "done" /\ threads[j].message = "queued"
        /\ threads[j].reported = "passed" /\ threads[j].patch_calls = 1

ThreadsOf(h) == {i \in DOMAIN threads : threads[i].handler = h}

\* C6: a probe (task_result_enforcement_level = "test") is answered 200 and starts
\* no thread, so it causes no GET, no PATCH and no put; every other event is
\* answered 200 and starts exactly one thread.
C6_ProbeSpawnsNothing ==
    \A h \in DOMAIN handlers :
        /\ handlers[h].response = 200
        /\ Cardinality(ThreadsOf(h)) = IF handlers[h].level = "test" THEN 0 ELSE 1

C6_Witness ==
    /\ Len(handlers) = 2
    /\ handlers[1].level = "test" /\ ThreadsOf(1) = {}
    /\ handlers[2].level # "test" /\ ThreadsOf(2) = {1}
    /\ threads[1].pc = "done"

\* C7: for an authenticated post_plan event with a callback target, a missing
\* run_id, a failed GET of the run or a failed GET of the workspace gives the
\* verdict "failed" and no put; each GET is made at most once per event, and the
\* workspace is not fetched when the run's source is not 'tfe-run-trigger'.
C7_FetchFailures ==
    \A i \in DOMAIN threads :
        LET t == threads[i]
            failure == \/ t.body.run_id = None
                       \/ t.run_response.status_code \notin {0, 200}
                       \/ t.workspace_response.status_code \notin {0, 200}
        IN  /\ t.run_gets <= 1
            /\ t.workspace_gets <= 1
            /\ t.run_gets = 0 => t.workspace_gets = 0
            /\ t.run_gets = 1 /\ t.run_response.source # "tfe-run-trigger" =>
                  t.workspace_gets = 0
            /\ SignatureMatches(t) /\ HasCallbackUrl(t)
                  /\ t.body.stage = "post_plan" /\ failure =>
                  /\ t.puts = <<>>
                  /\ t.pc \notin {"get_run", "get_workspace", "put"}
                  /\ t.status = "failed"
                  /\ Finished(t) => t.reported = "failed" /\ t.pc = "done"

C7_Witness ==
    \E i \in DOMAIN threads :
        /\ threads[i].pc = "done"
        /\ threads[i].run_response.status_code = 200
        /\ threads[i].workspace_response.status_code = 404
        /\ threads[i].run_gets = 1 /\ threads[i].workspace_gets = 1
        /\ threads[i].reported = "failed"

\* A step in which process_queue makes the call it is positioned at.
GetRunCall == pq.pc = "get_run" /\ pq'.pc # "get_run"

ApplyCall == pq.pc = "apply" /\ pq'.pc # "apply"

\* C8: idempotence of apply: however often a run id has been put on the queue,
\* applyRun answers 202 for it once, and after a 202 for an id no further
\* applyRun call is made for that id.
C8_ApplyOnce == [][ApplyCall => pq.run_id \notin accepted]_vars

\* C9: in every iteration of process_queue the delay is taken, before the GET
\* of the run, if and only if the id popped equals the id popped in the
\* preceding iteration, whatever that iteration did with it; never in the first.
C9_Backoff ==
    /\ pq.pc = "sleep" => iter.repeat /\ ~iter.slept
    /\ pq.pc \in {"get_run", "apply"} => (iter.slept <=> iter.repeat)
    /\ pq.pc = "get" => ~iter.slept

\* The same id popped again after an iteration that dropped it (202).
C9_Witness ==
    /\ pq.pc = "get_run"
    /\ iter.slept
    /\ pq.run_id \in accepted
    /\ run_ids_queue = <<>>

\* C10: once applyRun has answered 202 for a run id, process_queue makes no
\* further GET or apply call for that id.
C10_NoPollingAfterAccepted ==
    [][GetRunCall \/ ApplyCall => pq.run_id \notin accepted]_vars

\* C13: the answer to an event does not wait for its thread: run_function
\* answers 200 when it has started the thread, before the HMAC check, the
\* eligibility checks, the put and the PATCH, and the answer is there whether
\* the thread has not begun, is under way, has ended or has died.
C13_AckDoesNotWait ==
    \A i \in DOMAIN threads :
        LET t == threads[i] IN
        /\ t.handler \in DOMAIN handlers
        /\ handlers[t.handler].response = 200
        /\ t.pc = "start" =>
              t.run_gets = 0 /\ t.puts = <<>> /\ t.patch_calls = 0 /\ t.reported = None

\* Answered, with one thread not begun and one dead.
C13_Witness ==
    \E i, j \in DOMAIN threads :
        /\ threads[i].pc = "start" /\ handlers[threads[i].handler].response = 200
        /\ threads[j].pc = "error" /\ handlers[threads[j].handler].response = 200

\* The evidence of the iteration under way or just ended.
FetchOk == iter.fetched.status_code = 200

FetchFailedEnd == iter.fetched.status_code \notin {0, 200}

SelfResolvedEnd == FetchOk /\ iter.fetched.status = "planned_and_finished"

ConfirmableSeen ==
    /\ FetchOk
    /\ iter.fetched.status # "planned_and_finished"
    /\ iter.fetched.is_confirmable = TRUE

NotYetConfirmableEnd ==
    /\ FetchOk
    /\ iter.fetched.status # "planned_and_finished"
    /\ iter.fetched.is_confirmable = FALSE

AcceptedEnd == iter.applied = 202

ConflictEnd == iter.applied = 409

ApplyErrorEnd == iter.applied \notin {0, 202, 409}

\* An iteration of process_queue has ended and the next has not begun.
EndedIteration == pq.pc = "get" /\ iter.fetched.status_code # 0

\* C14: in every iteration applyRun is called at most once, and only if the GET
\* of the run in that iteration succeeded, with a status other than
\* planned_and_finished and is-confirmable true; no apply call otherwise.
C14_ApplyOnlyIfConfirmable ==
    /\ iter.applies <= 1
    /\ (iter.applies = 0) <=> (iter.applied = 0)
    /\ pq.pc = "apply" => ConfirmableSeen /\ iter.applies = 0
    /\ iter.applies > 0 => ConfirmableSeen
    /\ pq.pc = "get" /\ ~ConfirmableSeen => iter.applies = 0

C14_Witness ==
    /\ EndedIteration
    /\ SelfResolvedEnd
    /\ iter.fetched.is_confirmable = TRUE
    /\ iter.applies = 0

\* The step that ends an iteration.
EndStep == pq.pc \in {"get_run", "apply"} /\ pq'.pc = "get"

\* C15: the popped id is put back, once and at the tail, if the run is not yet
\* confirmable or the apply answers 409; it is not put back if the GET fails,
\* the status is planned_and_finished (whatever is-confirmable says), the apply
\* answers 202, or the apply answers anything else.
C15_IterationOutcome ==
    /\ [](EndedIteration =>
            /\ NotYetConfirmableEnd \/ ConflictEnd => iter.requeued = 1
            /\ FetchFailedEnd \/ SelfResolvedEnd \/ AcceptedEnd \/ ApplyErrorEnd =>
                  iter.requeued = 0)
    /\ [][EndStep =>
            run_ids_queue' = IF iter'.requeued = 1
                             THEN Append(run_ids_queue, pq.run_id)
                             ELSE run_ids_queue]_vars

C15_Witness ==
    /\ EndedIteration
    /\ ConflictEnd
    /\ iter.requeued = 1
    /\ run_ids_queue = <<"run-2", "run-1">>
    /\ pq.run_id = "run-1"

\* C16 as stated: a popped id is not put back only on 202, on
\* planned_and_finished, or on a failed GET of the run.
C16_Original ==
    EndedIteration /\ iter.requeued = 0 =>
        AcceptedEnd \/ SelfResolvedEnd \/ FetchFailedEnd

\* C16 amended: a popped id is not put back only on 202, on
\* planned_and_finished, on a failed GET of the run, or on an apply answer that
\* is neither 202 nor 409; in every other case it is put back once.
C16_DroppedOnlyWhenTerminal ==
    EndedIteration =>
        /\ iter.requeued \in {0, 1}
        /\ iter.requeued = 0 =>
              AcceptedEnd \/ SelfResolvedEnd \/ FetchFailedEnd \/ ApplyErrorEnd

C16_Witness ==
    /\ EndedIteration
    /\ ApplyErrorEnd
    /\ iter.requeued = 0
    /\ run_ids_queue = <<>>

Count(r, queue) == Cardinality({k \in DOMAIN queue : queue[k] = r})

Held(r) == pq.pc # "get" /\ pq.run_id = r

\* The ids put by the threads, thread by thread.
PutsOf(r) == {i \in DOMAIN threads : threads[i].puts = <<r>>}

\* One step's effect on the queue: nothing, a put by a thread of its event's
\* run id, the removal of the head by process_queue's get, or a put by
\* process_queue of the id it holds.
ThreadPut ==
    \E i \in DOMAIN threads :
        /\ threads'[i].puts = Append(threads[i].puts, threads[i].body.run_id)
        /\ \A j \in DOMAIN threads \ {i} : threads'[j].puts = threads[j].puts
        /\ run_ids_queue' = Append(run_ids_queue, threads[i].body.run_id)
        /\ pq' = pq

NoThreadPut ==
    \A i \in DOMAIN threads : threads'[i].puts = threads[i].puts

QueueStep ==
    \/ run_ids_queue' = run_ids_queue /\ NoThreadPut
    \/ ThreadPut
    \/ /\ pq.pc = "get" /\ pq'.pc # "get"
       /\ run_ids_queue # <<>>
       /\ pq'.run_id = Head(run_ids_queue)
       /\ run_ids_queue' = Tail(run_ids_queue)
       /\ NoThreadPut
    \/ /\ EndStep
       /\ run_ids_queue' = Append(run_ids_queue, pq.run_id)
       /\ NoThreadPut

\* C18 as stated: each thread puts at most once, and process_queue makes no GET
\* and no apply while the queue is empty.
C18_Original ==
    /\ \A i \in DOMAIN threads : Len(threads[i].puts) <= 1
    /\ pq.pc \in {"get_run", "apply"} => run_ids_queue # <<>>

\* C18 amended: each thread puts at most once and removes nothing; only
\* process_queue removes, one head per get; every put adds exactly one entry,
\* so no entry is lost or duplicated; process_queue makes a GET or an apply only
\* for an id it has popped, and not before the first pop.
C18_QueueSharing ==
    /\ [](\A i \in DOMAIN threads : Len(threads[i].puts) <= 1)
    /\ [](pq.pc # "get" => pq.run_id = last_pop /\ last_pop \in RunIds)
    /\ [][QueueStep]_vars

\* Two threads have put, process_queue holds one id and the other waits.
C18_Witness ==
    /\ Cardinality(PutsOf("run-1")) = 1
    /\ Cardinality(PutsOf("run-2")) = 1
    /\ pq.pc = "get_run"
    /\ Len(run_ids_queue) = 1
    /\ pq.run_id # run_ids_queue[1]

\* C19: the put comes before the "queued" PATCH: a thread that is about to
\* report, or has reported, "queued" has put its event's run id on the queue.
C19_PutBeforeCallback ==
    \A i \in DOMAIN threads :
        LET t == threads[i] IN
        t.message = "queued" =>
            /\ t.puts = <<t.body.run_id>>
            /\ t.status = "passed"
            /\ t.reported # None => t.reported = "passed"

C19_Witness ==
    \E i \in DOMAIN threads :
        /\ threads[i].message = "queued"
        /\ threads[i].pc = "patch"
        /\ threads[i].reported = None
        /\ run_ids_queue = <<threads[i].body.run_id>>

\* C20: for each run id, the entries in the queue plus the one process_queue
\* holds are at most the puts the threads have made of that id.
C20_BoundedMultiplicity ==
    \A r \in RunIds :
        Count(r, run_ids_queue) + (IF Held(r) THEN 1 ELSE 0) <= Cardinality(PutsOf(r))

\* An id put twice by threads, once in the queue and once held, after a put back.
C20_Witness ==
    /\ Cardinality(PutsOf("run-1")) = 2
    /\ Count("run-1", run_ids_queue) = 1
    /\ Held("run-1")
    /\ iter.repeat

----------------------------------------------------------------------------
\* Progress of process_queue, under SpecFair.

InQueue(r) == Count(r, run_ids_queue) > 0

\* An iteration for r has ended and the next has not begun.
Ended(r) == EndedIteration /\ pq.run_id = r

\* Every iteration for r ends not yet confirmable, in a conflict, or accepted.
SoftOrAccepted(r) ==
    [](Ended(r) => NotYetConfirmableEnd \/ ConflictEnd \/ AcceptedEnd)

\* From some point on, every iteration for r finds the run confirmable and has
\* its apply answered 202.
EventuallyAccepts(r) ==
    <>[][EndStep /\ pq.run_id = r => AcceptedEnd']_vars

\* C11: for every run id, if the platform never answers an iteration for it with
\* anything but not-yet-confirmable, 409 or 202, and from some point on reports
\* the run confirmable and answers the apply with 202, then whenever the id is
\* in the queue an iteration for it eventually ends with 202, and eventually the
\* id is neither in the queue nor held, for good.
C11_RetryUntilAccepted ==
    \A r \in RunIds :
        SoftOrAccepted(r) /\ EventuallyAccepts(r) =>
            /\ InQueue(r) ~> (Ended(r) /\ AcceptedEnd)
            /\ <>[](~InQueue(r) /\ ~Held(r))

\* An id put once by a thread has been through an iteration that put it back,
\* has been popped again after the delay, is now confirmable, and its apply is
\* under way.
C11_Witness ==
    /\ pq.pc = "apply"
    /\ iter.repeat /\ iter.slept
    /\ ConfirmableSeen
    /\ Cardinality(PutsOf(pq.run_id)) = 1
    /\ pq.run_id \notin accepted
    /\ run_ids_queue = <<>>

\* The iteration ended without putting the id back.
TerminalEnd == AcceptedEnd \/ SelfResolvedEnd \/ FetchFailedEnd \/ ApplyErrorEnd

\* C12 as stated: every id in the queue is eventually popped in an iteration
\* that ends applied, self-resolved or abandoned.
C12_Original ==
    \A r \in RunIds : InQueue(r) ~> (Ended(r) /\ TerminalEnd)

\* C12 amended: every id in the queue is eventually popped and its iteration
\* ends; an iteration ends either in a terminal outcome, the id not put back,
\* or not yet confirmable or in a conflict, the id put back once to be tried
\* again, with no bound on the number of such iterations.
C12_EveryIdServed ==
    /\ \A r \in RunIds : InQueue(r) ~> Ended(r)
    /\ [](EndedIteration =>
            \/ iter.requeued = 0 /\ TerminalEnd
            \/ iter.requeued = 1 /\ (NotYetConfirmableEnd \/ ConflictEnd) /\ ~TerminalEnd)

\* After the delay, an iteration for an id popped twice in a row has ended not
\* yet confirmable again, and the id is back in the queue.
C12_Witness ==
    /\ Ended("run-1")
    /\ NotYetConfirmableEnd
    /\ run_ids_queue = <<"run-1">>
    /\ pq.prev_run_id = "run-1"
    /\ Cardinality(PutsOf("run-1")) = 1
    /\ PutsOf("run-2") = {}

\* The run of s is found not yet confirmable, and s put back, again and again.
PersistentlyNotConfirmable(s) == []<>(Ended(s) /\ NotYetConfirmableEnd)

\* C17: while one id is put back for ever because its run is never confirmable,
\* every other id in the queue is still popped, and is applied under the
\* conditions of C11 on its own run.
C17_NoStarvation ==
    \A r \in RunIds : \A s \in RunIds \ {r} :
        PersistentlyNotConfirmable(s) =>
            /\ InQueue(r) ~> Held(r)
            /\ SoftOrAccepted(r) /\ EventuallyAccepts(r) =>
                  (InQueue(r) ~> r \in accepted)

\* An id has just been put back, not yet confirmable, behind another id that
\* waits at the head of the queue.
C17_Witness ==
    /\ Ended("run-2")
    /\ NotYetConfirmableEnd
    /\ iter.requeued = 1
    /\ run_ids_queue = <<"run-1", "run-2">>
    /\ "run-1" \notin accepted

====
